---- MODULE Spec2Model ----
(***************************************************************************)
(* Model of frmts/lum/lumdataset.cpp: the LUM raster driver.               *)
(*                                                                         *)
(* A 32-bit word is a tuple of four bytes, most significant first, so that *)
(* the full unsigned range is kept.  A file is the sequence of its bytes.  *)
(* Characters are their ASCII codes.                                       *)
(***************************************************************************)
EXTENDS Integers, Sequences, FiniteSets, TLC

VARIABLES
    hostLSB,    \* TRUE when the build defines CPL_LSB (little-endian host)
    fs,         \* the destination file: [exists, data]
    streams,    \* VSILFILE handles of the current call: id -> [opened, closes]
    ds,         \* the adapter held by the caller (null when none)
    call,       \* the last Open/Create call: arguments and outcome
    geo,        \* the last GetGeoTransform answer
    probe       \* the last Identify call: input and answer

vars == <<hostLSB, fs, streams, ds, call, geo, probe>>

(***************************************************************************)
(* Bounds of the model.                                                    *)
(***************************************************************************)
MaxDim == 4          \* small raster dimensions 0..MaxDim are enumerated
MaxBands == 2        \* Create is tried with 0..MaxBands bands

(***************************************************************************)
(* Bytes, bits and 32-bit words.                                           *)
(***************************************************************************)
RECURSIVE BitOr(_, _)
BitOr(a, b) ==
    IF a = 0 THEN b
    ELSE IF b = 0 THEN a
    ELSE (IF a % 2 = 1 \/ b % 2 = 1 THEN 1 ELSE 0) + 2 * BitOr(a \div 2, b \div 2)

RECURSIVE BitAnd(_, _)
BitAnd(a, b) ==
    IF a = 0 \/ b = 0 THEN 0
    ELSE (IF a % 2 = 1 /\ b % 2 = 1 THEN 1 ELSE 0) + 2 * BitAnd(a \div 2, b \div 2)

U32Or(u, v) == [i \in 1..4 |-> BitOr(u[i], v[i])]
U32And(u, v) == [i \in 1..4 |-> BitAnd(u[i], v[i])]
\* ui >> 24 and ui >> 8, ui << 8 and ui << 24 on a uint32_t
U32Shr24(u) == <<0, 0, 0, u[1]>>
U32Shr8(u) == <<0, u[1], u[2], u[3]>>
U32Shl8(u) == <<u[2], u[3], u[4], 0>>
U32Shl24(u) == <<u[4], 0, 0, 0>>

\* static_cast<int>(uint32_t): the two's complement reading
ToInt(u) ==
    (IF u[1] >= 128 THEN u[1] - 256 ELSE u[1]) * 16777216
        + u[2] * 65536 + u[3] * 256 + u[4]

\* the word of a non-negative int
FromNat(n) ==
    <<(n \div 16777216) % 256, (n \div 65536) % 256, (n \div 256) % 256, n % 256>>

\* uint32_t + uint32_t, modulo 2^32
U32Add(u, v) ==
    LET s4 == u[4] + v[4]
        s3 == u[3] + v[3] + s4 \div 256
        s2 == u[2] + v[2] + s3 \div 256
        s1 == u[1] + v[1] + s2 \div 256
    IN  <<s1 % 256, s2 % 256, s3 % 256, s4 % 256>>

\* uint32_t * int (the int is a pixel size, 1..8), modulo 2^32
RECURSIVE U32Mul(_, _)
U32Mul(u, k) == IF k <= 0 THEN <<0, 0, 0, 0>> ELSE U32Add(U32Mul(u, k - 1), u)

\* uint32_t > int, the int non-negative (the usual arithmetic conversions
\* make the comparison unsigned)
U32Gt(u, k) == u[1] >= 128 \/ ToInt(u) > k

\* the four bytes a uint32_t occupies in memory on the host, and back
StoreU32(lsb, u) == IF lsb THEN <<u[4], u[3], u[2], u[1]>> ELSE u
LoadU32(lsb, buf, off) ==
    IF lsb THEN <<buf[off + 4], buf[off + 3], buf[off + 2], buf[off + 1]>>
    ELSE <<buf[off + 1], buf[off + 2], buf[off + 3], buf[off + 4]>>

swapByteOrderDropsLow(ui) ==
    U32Or(U32Or(U32Shr24(ui), U32And(U32Shl8(ui), <<0, 255, 0, 0>>)),
          U32And(U32Shr8(ui), <<0, 0, 255, 0>>))

swapByteOrder(ui) ==
    U32Or(U32Or(U32Or(U32Shr24(ui),
                      U32And(U32Shl8(ui), <<0, 255, 0, 0>>)),
                U32And(U32Shr8(ui), <<0, 0, 255, 0>>)),
          U32Shl24(ui))

(***************************************************************************)
(* Characters and the case-insensitive prefix test.                        *)
(***************************************************************************)
Code ==
    [c \in {"0", "1", "2", "3", "4", "5", "6", "7", "8", "9",
            "B", "F", "I", "L", "O", "X", "b", "f", "i", "l", "o", "/", ":"} |->
        CASE c = "0" -> 48 [] c = "1" -> 49 [] c = "2" -> 50 [] c = "3" -> 51
          [] c = "4" -> 52 [] c = "5" -> 53 [] c = "6" -> 54 [] c = "7" -> 55
          [] c = "8" -> 56 [] c = "9" -> 57 [] c = "/" -> 47 [] c = ":" -> 58
          [] c = "B" -> 66 [] c = "F" -> 70 [] c = "I" -> 73 [] c = "L" -> 76
          [] c = "O" -> 79 [] c = "X" -> 88
          [] c = "b" -> 98 [] c = "f" -> 102 [] c = "i" -> 105 [] c = "l" -> 108
          [] c = "o" -> 111]

Str2(a, b) == <<Code[a], Code[b]>>
Str4(a, b, c, d) == <<Code[a], Code[b], Code[c], Code[d]>>

ToUpperC(c) == IF c >= 97 /\ c <= 122 THEN c - 32 ELSE c

\* STARTS_WITH_CI(psHeader + off, lit)
STARTS_WITH_CI(buf, off, lit) ==
    \A i \in 1..Len(lit) :
        /\ off + i <= Len(buf)
        /\ ToUpperC(buf[off + i]) = ToUpperC(lit[i])

\* snprintf("%02d", n) for 0 <= n <= 99
Fmt02d(n) == <<48 + ((n \div 10) % 10), 48 + (n % 10)>>

(***************************************************************************)
(* Data types and the external helpers the driver calls.                   *)
(***************************************************************************)
INT_MAX == 2147483647

DataTypes == {"GDT_Byte", "GDT_UInt16", "GDT_Int16", "GDT_Float32"}

GDALGetDataTypeSizeBytes(eDataType) ==
    CASE eDataType = "GDT_Byte" -> 1
      [] eDataType = "GDT_UInt16" -> 2
      [] eDataType = "GDT_Int16" -> 2
      [] eDataType = "GDT_Float32" -> 4
      [] OTHER -> 0

\* Stream handles: 1 is the handle Create writes through, 2 the handle of a
\* GDALOpenInfo; 0 is nullptr.
StreamIds == {1, 2}
NoStreams == [s \in StreamIds |-> [opened |-> FALSE, closes |-> 0]]

VSIFOpened(st, id) == [st EXCEPT ![id] = [opened |-> TRUE, closes |-> 0]]
VSIFCloseL(st, id) == [st EXCEPT ![id].closes = @ + 1]

\* VSIFWriteL(buf, size, 1, fp) that puts n <= size bytes in the file; the
\* call answers 1 only when n = size
VSIFWriteL(file, buf, n) == [file EXCEPT !.data = @ \o SubSeq(buf, 1, n)]
WriteCount(buf, n) == IF n = Len(buf) THEN 1 ELSE 0

\* GDALOpenInfo(pszFilename, eAccess): opens the file and reads its first bytes
GDALOpenInfo(file, eAccess, ok) ==
    IF file.exists /\ ok
    THEN [fpL |-> 2, nHeaderBytes |-> Len(file.data), pabyHeader |-> file.data,
          eAccess |-> eAccess]
    ELSE [fpL |-> 0, nHeaderBytes |-> 0, pabyHeader |-> <<>>, eAccess |-> eAccess]

\* ~GDALOpenInfo(): closes the handle it still holds
GDALOpenInfoDestroy(oi, st) == IF oi.fpL # 0 THEN VSIFCloseL(st, oi.fpL) ELSE st

(***************************************************************************)
(* LUMDataset.                                                             *)
(***************************************************************************)
NoBand ==
    [nImgOffset |-> <<0, 0, 0, 0>>, nPixelOffset |-> 0, nLineOffset |-> 0,
     eDataType |-> "GDT_Unknown", bNativeOrder |-> FALSE, bOwnsFP |-> FALSE,
     fpRawL |-> 0, eColorInterp |-> "GCI_Undefined"]

\* nullptr, in the shape of a dataset
NullDS ==
    [null |-> TRUE, fpImage |-> 0, nRasterXSize |-> 0, nRasterYSize |-> 0,
     eAccess |-> "GA_ReadOnly", bGeoTransformValid |-> FALSE,
     adfGeoTransform |-> <<0, 0, 0, 0, 0, 0>>, nBands |-> 0, band |-> NoBand]

LUMDatasetNewNorthUp ==
    [null |-> FALSE, fpImage |-> 0, nRasterXSize |-> 0, nRasterYSize |-> 0,
     eAccess |-> "GA_ReadOnly", bGeoTransformValid |-> FALSE,
     adfGeoTransform |-> <<0, 1, 0, 0, 0, -1>>, nBands |-> 0, band |-> NoBand]

\* LUMDataset::LUMDataset()
LUMDatasetNew ==
    [null |-> FALSE, fpImage |-> 0, nRasterXSize |-> 0, nRasterYSize |-> 0,
     eAccess |-> "GA_ReadOnly", bGeoTransformValid |-> FALSE,
     adfGeoTransform |-> <<0, 1, 0, 0, 0, 1>>, nBands |-> 0, band |-> NoBand]

\* LUMDataset::~LUMDataset(), after the bands' destructors: a band that owns
\* its handle closes it, then the dataset closes fpImage
LUMDatasetDestroy(poDS, st) ==
    LET st1 == IF poDS.nBands = 1 /\ poDS.band.bOwnsFP /\ poDS.band.fpRawL # 0
               THEN VSIFCloseL(st, poDS.band.fpRawL) ELSE st
    IN  IF poDS.fpImage # 0 THEN VSIFCloseL(st1, poDS.fpImage) ELSE st1

\* LUMDataset::GetGeoTransform
GetGeoTransform(poDS) ==
    IF poDS.bGeoTransformValid
    THEN [err |-> "CE_None", padfTransform |-> poDS.adfGeoTransform]
    ELSE [err |-> "CE_Failure", padfTransform |-> <<>>]

RecognizedTags ==
    <<Str4("0", "8", "B", "I"), Str4("0", "9", "B", "I"), Str4("1", "0", "B", "I"),
      Str4("1", "1", "B", "I"), Str4("1", "2", "B", "I"), Str4("1", "3", "B", "I"),
      Str4("1", "4", "B", "I"), Str4("1", "5", "B", "I"), Str4("1", "6", "B", "I"),
      Str4("0", "8", "L", "I"), Str4("0", "9", "L", "I"), Str4("1", "0", "L", "I"),
      Str4("1", "1", "L", "I"), Str4("1", "2", "L", "I"), Str4("1", "3", "L", "I"),
      Str4("1", "4", "L", "I"), Str4("1", "5", "L", "I"), Str4("1", "6", "L", "I"),
      Str4("F", "L", "O", "L")>>

IdentifyCaseSensitive(poOpenInfo) ==
    IF poOpenInfo.nHeaderBytes < 12 \/ poOpenInfo.fpL = 0 THEN FALSE
    ELSE \E k \in 1..Len(RecognizedTags) :
            SubSeq(poOpenInfo.pabyHeader, 9, 12) = RecognizedTags[k]

\* LUMDataset::Identify
Identify(poOpenInfo) ==
    IF poOpenInfo.nHeaderBytes < 12 \/ poOpenInfo.fpL = 0 THEN FALSE
    ELSE IF \A k \in 1..Len(RecognizedTags) :
                ~STARTS_WITH_CI(poOpenInfo.pabyHeader, 8, RecognizedTags[k])
         THEN FALSE
         ELSE TRUE

\* Open, lines 175-187: the header words are swapped when the order tag names
\* the order that is not the host's
NeedsSwap(lsb, psHeader) ==
    IF lsb THEN STARTS_WITH_CI(psHeader, 10, Str2("B", "I"))
    ELSE STARTS_WITH_CI(psHeader, 10, Str2("L", "I"))

InvalidDimensionsAllowsZero(nRasterXSize, nRasterYSize) ==
    nRasterXSize < 0 \/ nRasterYSize < 0

\* Open, line 191
InvalidDimensions(nRasterXSize, nRasterYSize) ==
    nRasterXSize <= 0 \/ nRasterYSize <= 0

\* Open, lines 204-224: the flag handed to the band as its byte order
bMSBFirst(lsb, psHeader) ==
    IF lsb THEN ~STARTS_WITH_CI(psHeader, 10, Str2("B", "I"))
    ELSE ~STARTS_WITH_CI(psHeader, 10, Str2("L", "I"))

\* Open, lines 226-234
HeaderDataType(psHeader) ==
    IF STARTS_WITH_CI(psHeader, 8, Str2("0", "8")) THEN "GDT_Byte" ELSE "GDT_UInt16"

RowOverflowsIgnoresPixelSize(nWidth, iPixelSize) == U32Gt(nWidth, INT_MAX)

\* Open, line 238
RowOverflows(nWidth, iPixelSize) == U32Gt(nWidth, INT_MAX \div iPixelSize)

\* Open, lines 245-255: new RawRasterBand(poDS, 1, fpImage, nImgOffset,
\* nPixelOffset, nLineOffset, eDataType, bNativeOrder, OwnFP::NO)
NewBand(fpImage, nWidth, iPixelSize, eDataType, bNativeOrder) ==
    [nImgOffset |-> U32Mul(nWidth, iPixelSize),
     nPixelOffset |-> iPixelSize,
     nLineOffset |-> ToInt(U32Mul(nWidth, iPixelSize)),
     eDataType |-> eDataType,
     bNativeOrder |-> bNativeOrder,
     bOwnsFP |-> FALSE,
     fpRawL |-> fpImage,
     eColorInterp |-> "GCI_GrayIndex"]

\* What Open answers when it returns nullptr before reading the header
OpenRefused(poOpenInfo, st) ==
    [ds |-> NullDS, oi |-> poOpenInfo, st |-> st, parsed |-> FALSE,
     nRasterXSize |-> 0, nRasterYSize |-> 0]

OpenFailedLeaks(poDS, oi, st) ==
    [ds |-> NullDS, oi |-> oi, st |-> st, parsed |-> TRUE,
     nRasterXSize |-> poDS.nRasterXSize, nRasterYSize |-> poDS.nRasterYSize]

\* Open, lines 196-197 and 242-243: delete poDS; return nullptr
OpenFailed(poDS, oi, st) ==
    [ds |-> NullDS, oi |-> oi, st |-> LUMDatasetDestroy(poDS, st), parsed |-> TRUE,
     nRasterXSize |-> poDS.nRasterXSize, nRasterYSize |-> poDS.nRasterYSize]

\* Open, lines 199-284: the bands and the rest, once the sizes are accepted
OpenBands(poDS, oi, st, lsb, psHeader, nWidth, eAccess, eDataType, iPixelSize) ==
    IF RowOverflows(nWidth, iPixelSize)
    THEN OpenFailed([poDS EXCEPT !.eAccess = eAccess], oi, st)
    ELSE [ds |-> [poDS EXCEPT
                    !.eAccess = eAccess,
                    !.nBands = 1,
                    !.band = NewBand(poDS.fpImage, nWidth, iPixelSize, eDataType,
                                     bMSBFirst(lsb, psHeader)),
                    !.bGeoTransformValid = TRUE],
          oi |-> oi, st |-> st, parsed |-> TRUE,
          nRasterXSize |-> poDS.nRasterXSize, nRasterYSize |-> poDS.nRasterYSize]

\* Open, lines 189-198 and 226-236
OpenSized(poDS, oi, st, lsb, psHeader, nWidth, eAccess) ==
    IF InvalidDimensions(poDS.nRasterXSize, poDS.nRasterYSize)
    THEN OpenFailed(poDS, oi, st)
    ELSE OpenBands(poDS, oi, st, lsb, psHeader, nWidth, eAccess,
                   HeaderDataType(psHeader),
                   GDALGetDataTypeSizeBytes(HeaderDataType(psHeader)))

\* Open, lines 172-187: a header word, swapped when the tag asks for it
HeaderWord(lsb, psHeader, off) ==
    IF NeedsSwap(lsb, psHeader) THEN swapByteOrder(LoadU32(lsb, psHeader, off))
    ELSE LoadU32(lsb, psHeader, off)

\* Open, lines 163-190: the new dataset borrows the handle of the GDALOpenInfo
OpenParsed(poOpenInfo, st, lsb, nWidth, nHeight) ==
    OpenSized([LUMDatasetNew EXCEPT !.fpImage = poOpenInfo.fpL,
                                    !.nRasterXSize = ToInt(nWidth),
                                    !.nRasterYSize = ToInt(nHeight)],
              [poOpenInfo EXCEPT !.fpL = 0], st, lsb, poOpenInfo.pabyHeader,
              nWidth, poOpenInfo.eAccess)

\* LUMDataset::Open: the dataset returned (NullDS for nullptr), the
\* GDALOpenInfo and the streams as the call leaves them, and the dimensions
\* assigned at lines 189-190
Open(poOpenInfo, st, lsb) ==
    IF ~Identify(poOpenInfo) THEN OpenRefused(poOpenInfo, st)
    ELSE IF poOpenInfo.fpL = 0 THEN OpenRefused(poOpenInfo, st)
    ELSE OpenParsed(poOpenInfo, st, lsb,
                    HeaderWord(lsb, poOpenInfo.pabyHeader, 0),
                    HeaderWord(lsb, poOpenInfo.pabyHeader, 4))

\* Create, line 300
CreateTypeOk(eType) == eType = "GDT_Byte" \/ eType = "GDT_UInt16"

CreateBandsUnchecked(nBands) == TRUE

\* Create, line 310
CreateBandsOk(nBands) == nBands = 1

HeaderTagOtherOrder(lsb, eType) ==
    Fmt02d(IF eType = "GDT_Byte" THEN 8 ELSE 12)
        \o (IF lsb THEN Str2("B", "I") ELSE Str2("L", "I"))

\* Create, lines 347-367: the bit depth and order tag written after the sizes
HeaderTag(lsb, eType) ==
    Fmt02d(IF eType = "GDT_Byte" THEN 8 ELSE 12)
        \o (IF lsb THEN Str2("L", "I") ELSE Str2("B", "I"))

HeaderWrittenIgnoresClose(nTagItems, nCloseRet) == nTagItems = 1

\* Create, lines 369-375: what decides that the header was written
HeaderWritten(nTagItems, nCloseRet) == nTagItems = 1 /\ nCloseRet = 0

\* the I/O steps when every one succeeds, or when none was made
IoAllOk ==
    [open |-> TRUE, w1 |-> 4, w2 |-> 4, w3 |-> 4, close |-> TRUE, lost |-> FALSE,
     reopen |-> TRUE]

\* What Create answers when it returns nullptr without calling Open; io is
\* how the I/O steps it made ended
CreateRefused(file, st, io) ==
    [ds |-> NullDS, fs |-> file, st |-> st, io |-> io, reopened |-> FALSE,
     parsed |-> FALSE, nRasterXSize |-> 0, nRasterYSize |-> 0]

\* Create, lines 341-369: the file after VSIFOpenL("wb") and the three
\* VSIFWriteL calls, each putting io.w1, io.w2, io.w3 bytes in it
HeaderWrites(lsb, nXSize, nYSize, szHeader, io) ==
    VSIFWriteL(VSIFWriteL(VSIFWriteL([exists |-> TRUE, data |-> <<>>],
                                     StoreU32(lsb, nXSize), io.w1),
                          StoreU32(lsb, nYSize), io.w2),
               szHeader, io.w3)

\* the file after VSIFCloseL: a failed close may lose what was buffered
AfterClose(f, io) ==
    IF ~io.close /\ io.lost THEN [exists |-> TRUE, data |-> <<>>] ELSE f

\* Create, line 378: what Open answered is returned; oOpenInfo goes out of scope
CreateReturn(f, io, r) ==
    [ds |-> r.ds, fs |-> f, st |-> GDALOpenInfoDestroy(r.oi, r.st), io |-> io,
     reopened |-> TRUE, parsed |-> r.parsed,
     nRasterXSize |-> r.nRasterXSize, nRasterYSize |-> r.nRasterYSize]

\* Create, lines 377-378
CreateReopen(f, st, lsb, io, oOpenInfo) ==
    CreateReturn(f, io,
                 Open(oOpenInfo,
                      IF oOpenInfo.fpL # 0 THEN VSIFOpened(st, oOpenInfo.fpL) ELSE st,
                      lsb))

\* Create, lines 371-378
CreateFinish(f, st, lsb, io, bOK) ==
    IF ~bOK THEN CreateRefused(f, st, io)
    ELSE CreateReopen(f, st, lsb, io, GDALOpenInfo(f, "GA_Update", io.reopen))

\* LUMDataset::Create.  nXSize and nYSize are the 32 bits of the int
\* arguments; io says how each I/O step ends: open (VSIFOpenL succeeds),
\* w1, w2, w3 (bytes the three VSIFWriteL calls put in the file), close
\* (VSIFCloseL answers 0), lost (a failed close loses the buffered bytes),
\* reopen (the GDALOpenInfo opens the file)
Create(file, st, lsb, nXSize, nYSize, nBands, eType, io) ==
    IF ~CreateTypeOk(eType) THEN CreateRefused(file, st, IoAllOk)
    ELSE IF ~CreateBandsOk(nBands) THEN CreateRefused(file, st, IoAllOk)
    ELSE IF ~io.open THEN CreateRefused(file, st, io)
    ELSE CreateFinish(
            AfterClose(HeaderWrites(lsb, nXSize, nYSize, HeaderTag(lsb, eType), io), io),
            VSIFCloseL(VSIFOpened(st, 1), 1), lsb, io,
            HeaderWritten(WriteCount(HeaderTag(lsb, eType), io.w3),
                          IF io.close THEN 0 ELSE 1))

(***************************************************************************)
(* Inputs.                                                                 *)
(***************************************************************************)
Reverse4(u) == <<u[4], u[3], u[2], u[1]>>

\* 2^30 - 1, 2^30, 2^31 - 1, 2^31 and 2^32 - 1: where the signed reading and
\* the row stride change
BoundaryWords ==
    {<<63, 255, 255, 255>>, <<64, 0, 0, 0>>, <<127, 255, 255, 255>>,
     <<128, 0, 0, 0>>, <<255, 255, 255, 255>>}

\* Create's nXSize and nYSize, as 32 bits
WidthArgs == {FromNat(n) : n \in 0..MaxDim} \cup BoundaryWords
HeightArgs == {FromNat(0), FromNat(3), <<255, 255, 255, 255>>}

\* the four bytes at offsets 0..3 and 4..7 of a file, in file order
WidthBytes == WidthArgs \cup {Reverse4(u) : u \in WidthArgs}
HeightBytes == HeightArgs \cup {Reverse4(u) : u \in HeightArgs}

FileTags ==
    {Str4("0", "8", "L", "I"), Str4("0", "8", "B", "I"), Str4("1", "2", "L", "I"),
     Str4("1", "6", "b", "i"), Str4("F", "L", "O", "L"), Str4("0", "7", "L", "I")}

NoFile == [exists |-> FALSE, data |-> <<>>]

\* the states the destination file can be in before a call: absent, empty,
\* one byte short of a header, or holding any 12-byte header
InitialFiles ==
    {NoFile, [exists |-> TRUE, data |-> <<>>]}
    \cup {[exists |-> TRUE, data |-> w \o h \o t] :
            w \in WidthBytes, h \in HeightBytes, t \in FileTags}
    \cup {[exists |-> TRUE, data |-> SubSeq(w \o <<0, 0, 0, 3>> \o t, 1, 11)] :
            w \in {FromNat(MaxDim)}, t \in FileTags}

\* bytes a failed 4-byte VSIFWriteL may still put in the file
ShortCounts == 0..3

IoOutcomes ==
    {[IoAllOk EXCEPT !.open = FALSE]}
    \cup {io \in [open : {TRUE}, w1 : ShortCounts \cup {4}, w2 : ShortCounts \cup {4},
                  w3 : ShortCounts \cup {4}, close : BOOLEAN, lost : BOOLEAN,
                  reopen : BOOLEAN] :
            /\ io.close => ~io.lost
            /\ ~(io.close /\ io.w3 = 4) => io.reopen}

\* Create's inputs: every size with a supported type and one band, every
\* type and band count with a few sizes, and a creatable raster with every
\* way the I/O steps can end
CreateInputs ==
    [nXSize : WidthArgs, nYSize : HeightArgs, nBands : {1},
     eType : {"GDT_Byte", "GDT_UInt16"}, io : {IoAllOk}]
    \cup [nXSize : {FromNat(0), FromNat(MaxDim), <<255, 255, 255, 255>>},
          nYSize : {FromNat(3)}, nBands : 0..MaxBands, eType : DataTypes,
          io : {IoAllOk}]
    \cup [nXSize : {FromNat(MaxDim)}, nYSize : {FromNat(3)}, nBands : {1},
          eType : {"GDT_Byte", "GDT_UInt16"}, io : IoOutcomes]

(***************************************************************************)
(* The state machine.                                                      *)
(***************************************************************************)
NoGeo == [asked |-> FALSE, err |-> "CE_None", padfTransform |-> <<>>]
NoProbe == [asked |-> FALSE, nHeaderBytes |-> 0, hasStream |-> FALSE,
            tag |-> <<0, 0, 0, 0>>, result |-> FALSE]

NoCall ==
    [op |-> "none", nXSize |-> <<0, 0, 0, 0>>, nYSize |-> <<0, 0, 0, 0>>,
     nBands |-> 0, eType |-> "GDT_Unknown", io |-> IoAllOk, header |-> <<>>,
     parsed |-> FALSE, nRasterXSize |-> 0, nRasterYSize |-> 0, returned |-> FALSE]

Init ==
    /\ hostLSB \in BOOLEAN
    /\ fs \in InitialFiles
    /\ streams = NoStreams
    /\ ds = NullDS
    /\ call = NoCall
    /\ geo = NoGeo
    /\ probe = NoProbe

\* the caller's state after Open answered r
OpenAnswered(oi, ok, r) ==
    /\ ds' = r.ds
    /\ streams' = GDALOpenInfoDestroy(r.oi, r.st)
    /\ call' = [NoCall EXCEPT !.op = "Open",
                              !.io = [IoAllOk EXCEPT !.reopen = ok],
                              !.header = oi.pabyHeader,
                              !.parsed = r.parsed,
                              !.nRasterXSize = r.nRasterXSize,
                              !.nRasterYSize = r.nRasterYSize,
                              !.returned = ~r.ds.null]

OpenCalled(oi, ok) ==
    OpenAnswered(oi, ok,
                 Open(oi, IF oi.fpL # 0 THEN VSIFOpened(NoStreams, oi.fpL) ELSE NoStreams,
                      hostLSB))

\* GDALOpen on the file: a GDALOpenInfo is built, Open is called, the
\* GDALOpenInfo is destroyed
OpenOp ==
    /\ ds.null
    /\ \E eAccess \in {"GA_ReadOnly", "GA_Update"}, ok \in BOOLEAN :
            OpenCalled(GDALOpenInfo(fs, eAccess, ok), ok)
    /\ geo' = NoGeo
    /\ UNCHANGED <<hostLSB, fs, probe>>

\* the caller's state after Create answered r
CreateAnswered(in, r) ==
    /\ ds' = r.ds
    /\ fs' = r.fs
    /\ streams' = r.st
    /\ call' = [NoCall EXCEPT !.op = "Create",
                              !.nXSize = in.nXSize, !.nYSize = in.nYSize,
                              !.nBands = in.nBands, !.eType = in.eType,
                              !.io = r.io,
                              !.header = IF r.reopened THEN r.fs.data ELSE <<>>,
                              !.parsed = r.parsed,
                              !.nRasterXSize = r.nRasterXSize,
                              !.nRasterYSize = r.nRasterYSize,
                              !.returned = ~r.ds.null]

\* GDALCreate on the file, as the first call made on it
CreateOp ==
    /\ ds.null
    /\ call.op = "none"
    /\ \E in \in CreateInputs :
            CreateAnswered(in, Create(fs, NoStreams, hostLSB, in.nXSize, in.nYSize,
                                      in.nBands, in.eType, in.io))
    /\ geo' = NoGeo
    /\ UNCHANGED <<hostLSB, probe>>

\* GetGeoTransform on the adapter the caller holds
GetGeoTransformOp ==
    /\ ~ds.null
    /\ geo' = [asked |-> TRUE] @@ GetGeoTransform(ds)
    /\ UNCHANGED <<hostLSB, fs, streams, ds, call, probe>>

\* GDALClose: the adapter is deleted
CloseOp ==
    /\ ~ds.null
    /\ streams' = LUMDatasetDestroy(ds, streams)
    /\ ds' = NullDS
    /\ geo' = NoGeo
    /\ UNCHANGED <<hostLSB, fs, call, probe>>

Next == OpenOp \/ CreateOp \/ GetGeoTransformOp \/ CloseOp

Spec == Init /\ [][Next]_vars

(***************************************************************************)
(* Identify on its own: every header tag over an alphabet, with a stream   *)
(* and 12 bytes, and a few tags with the other lengths and no stream.      *)
(***************************************************************************)
TagChars ==
    {Code[c] : c \in {"0", "1", "2", "3", "4", "5", "6", "7", "8", "9",
                      "B", "F", "I", "L", "O", "b", "i", "l", "/"}} \cup {0}

SomeTags ==
    {Str4("0", "8", "L", "I"), Str4("1", "6", "b", "i"), Str4("f", "l", "o", "l"),
     Str4("F", "l", "O", "l"), Str4("1", "7", "L", "I"), Str4("0", "8", "X", "I"),
     Str4("1", ":", "B", "I")}

IdentifyInputs ==
    {[nHeaderBytes |-> 12, fpL |-> 2, tag |-> <<a, b, c, d>>] :
        a \in TagChars, b \in TagChars, c \in TagChars, d \in TagChars}
    \cup [nHeaderBytes : {0, 11, 12, 13, 1024}, fpL : {0, 2}, tag : SomeTags]

IdentifyAnswered(in, result) ==
    probe' = [asked |-> TRUE, nHeaderBytes |-> in.nHeaderBytes,
              hasStream |-> in.fpL # 0, tag |-> in.tag, result |-> result]

\* GDALIdentifyDriver: Identify on a GDALOpenInfo whose header holds the tag
\* at offset 8
IdentifyOp ==
    /\ ~probe.asked
    /\ \E in \in IdentifyInputs :
            IdentifyAnswered(in,
                Identify([fpL |-> in.fpL, nHeaderBytes |-> in.nHeaderBytes,
                          pabyHeader |-> <<0, 0, 0, 0, 0, 0, 0, 0>> \o in.tag,
                          eAccess |-> "GA_ReadOnly"]))
    /\ UNCHANGED <<hostLSB, fs, streams, ds, call, geo>>

InitIdentify ==
    /\ hostLSB \in BOOLEAN
    /\ fs = NoFile
    /\ streams = NoStreams
    /\ ds = NullDS
    /\ call = NoCall
    /\ geo = NoGeo
    /\ probe = NoProbe

NextIdentify == IdentifyOp

SpecIdentify == InitIdentify /\ [][NextIdentify]_vars

(***************************************************************************)
(* The properties.                                                         *)
(***************************************************************************)
IsDigit(c) == c >= 48 /\ c <= 57

\* a tag of four characters that is one of 08..16 followed by BI or LI, or
\* FLOL, in any letter case
TagRecognized(t) ==
    \/ /\ IsDigit(t[1]) /\ IsDigit(t[2])
       /\ (t[1] - 48) * 10 + (t[2] - 48) >= 8
       /\ (t[1] - 48) * 10 + (t[2] - 48) <= 16
       /\ t[3] \in {66, 98, 76, 108}
       /\ t[4] \in {73, 105}
    \/ /\ t[1] \in {70, 102} /\ t[2] \in {76, 108}
       /\ t[3] \in {79, 111} /\ t[4] \in {76, 108}

\* the order tag of a 12-byte header names big-endian, little-endian
TaggedBI(h) == h[11] \in {66, 98} /\ h[12] \in {73, 105}
TaggedLI(h) == h[11] \in {76, 108} /\ h[12] \in {73, 105}
TaggedForeign(h) == IF hostLSB THEN TaggedBI(h) ELSE TaggedLI(h)
TaggedNative(h) == IF hostLSB THEN TaggedLI(h) ELSE TaggedBI(h)

\* the word at offset off of a header as the host reads it, and as a signed
\* int once the bytes are put in the order the tag names
RawWord(h, off) ==
    IF hostLSB THEN <<h[off + 4], h[off + 3], h[off + 2], h[off + 1]>>
    ELSE <<h[off + 1], h[off + 2], h[off + 3], h[off + 4]>>
CorrectedInt(h, off) ==
    ToInt(IF TaggedForeign(h) THEN Reverse4(RawWord(h, off)) ELSE RawWord(h, off))
TaggedPixelSize(h) == IF h[9] = 48 /\ h[10] = 56 THEN 1 ELSE 2

\* the last call was a Create that got past its argument checks
CreateAccepted ==
    /\ call.op = "Create"
    /\ call.eType \in {"GDT_Byte", "GDT_UInt16"}
    /\ call.nBands = 1
RequestedPixelSize == IF call.eType = "GDT_Byte" THEN 1 ELSE 2
\* the sizes asked of Create are ones the format can hold
RequestedSizeFits ==
    /\ ToInt(call.nXSize) > 0
    /\ ToInt(call.nYSize) > 0
    /\ (RequestedPixelSize = 2 => ToInt(call.nXSize) < 1073741824)

\* the last call handed a readable 12-byte header with a recognized tag to Open
OpenSawRecognizedHeader ==
    /\ call.op \in {"Open", "Create"}
    /\ Len(call.header) = 12
    /\ call.io.reopen
    /\ TagRecognized(SubSeq(call.header, 9, 12))

\* C1: Create(w, h, 1 band, Byte or UInt16) with 0 < w, h, w * pixel size <=
\* 2^31 - 1 and all I/O succeeding returns a dataset whose raster size is
\* (w, h) and whose single band has the pixel type asked for.
C1_RoundTrip ==
    (CreateAccepted /\ call.io = IoAllOk /\ RequestedSizeFits) =>
        /\ call.returned
        /\ call.nRasterXSize = ToInt(call.nXSize)
        /\ call.nRasterYSize = ToInt(call.nYSize)
        /\ ~ds.null =>
            /\ ds.nRasterXSize = ToInt(call.nXSize)
            /\ ds.nRasterYSize = ToInt(call.nYSize)
            /\ ds.nBands = 1
            /\ ds.band.eDataType = call.eType

C1_Witness ==
    /\ CreateAccepted /\ call.io = IoAllOk /\ call.returned /\ ~ds.null
    /\ call.eType = "GDT_UInt16"
    /\ ds.nRasterXSize = 1073741823
    /\ ds.nRasterYSize = 3

\* C2: Identify answers TRUE exactly when at least 12 header bytes and a
\* stream are available and bytes 8..11 are, in any letter case, one of the
\* 19 recognized tags.
C2_IdentifyIff ==
    probe.asked =>
        (probe.result <=>
            (probe.nHeaderBytes >= 12 /\ probe.hasStream /\ TagRecognized(probe.tag)))

C2_Witness ==
    /\ probe.asked /\ probe.result
    /\ probe.tag = Str4("1", "3", "l", "i")

\* C3: in Open, for a header whose order tag names the order opposite to the
\* host's, the parsed width and height are the 4-byte reversal of the raw
\* words at offsets 0 and 4; for a header tagged with the host's order they
\* are the raw words.
C3_SwapWhenForeign ==
    (call.parsed /\ Len(call.header) = 12) =>
        /\ TaggedForeign(call.header) =>
            /\ call.nRasterXSize = ToInt(Reverse4(RawWord(call.header, 0)))
            /\ call.nRasterYSize = ToInt(Reverse4(RawWord(call.header, 4)))
        /\ TaggedNative(call.header) =>
            /\ call.nRasterXSize = ToInt(RawWord(call.header, 0))
            /\ call.nRasterYSize = ToInt(RawWord(call.header, 4))

C3_Witness ==
    /\ call.op = "Open" /\ call.parsed /\ call.returned
    /\ TaggedForeign(call.header)
    /\ RawWord(call.header, 0) = <<4, 0, 0, 0>>
    /\ call.nRasterXSize = 4

\* C4: Open returns no dataset for a header with a recognized tag whose
\* corrected width or height is <= 0 as a signed 32-bit int, or whose width
\* times pixel size exceeds 2^31 - 1; no dataset has a non-positive size or
\* a row stride beyond 2^31 - 1.
C4_InvalidGeometryRejected ==
    /\ (/\ OpenSawRecognizedHeader
        /\ \/ CorrectedInt(call.header, 0) <= 0
           \/ CorrectedInt(call.header, 4) <= 0
           \/ (TaggedPixelSize(call.header) = 2
                 /\ CorrectedInt(call.header, 0) >= 1073741824))
       => (~call.returned /\ ds.null)
    /\ ~ds.null =>
        /\ ds.nRasterXSize > 0
        /\ ds.nRasterYSize > 0
        /\ ds.nRasterXSize <= INT_MAX \div ds.band.nPixelOffset

C4_Witness ==
    /\ call.op = "Open" /\ OpenSawRecognizedHeader /\ ~call.returned
    /\ CorrectedInt(call.header, 0) = 0
    /\ CorrectedInt(call.header, 4) > 0

\* C5: a Create with a pixel type other than Byte or UInt16, or with a band
\* count other than 1, returns no dataset and leaves the file as it was.
C5_RefusedCreateLeavesFile ==
    [][(/\ call.op = "none"
        /\ call'.op = "Create"
        /\ (call'.eType \notin {"GDT_Byte", "GDT_UInt16"} \/ call'.nBands # 1))
       => (fs' = fs /\ ds'.null /\ ~call'.returned)]_vars

C5_Witness ==
    /\ call.op = "Create" /\ call.eType = "GDT_UInt16" /\ call.nBands = 2
    /\ ~call.returned
    /\ fs.exists /\ Len(fs.data) = 12

\* C6: whenever a write of the width, the height or the tag, or the close,
\* fails in Create, Create returns no dataset.
C6_IoFailureNoDataset ==
    (/\ CreateAccepted
     /\ call.io.open
     /\ (call.io.w1 < 4 \/ call.io.w2 < 4 \/ call.io.w3 < 4 \/ ~call.io.close))
    => (~call.returned /\ ds.null)

C6_Witness ==
    /\ CreateAccepted /\ call.io.open
    /\ call.io.w1 < 4 /\ call.io.w2 = 4 /\ call.io.w3 = 4 /\ call.io.close
    /\ ~call.returned

\* C7: every stream a call opened is closed exactly once unless the
\* returned adapter holds it, and then it is closed exactly once when the
\* adapter is discarded; no stream is closed twice, the adapter never holds
\* a closed stream, and an adapter handed to the caller is fully set up.
C7_StreamsReleasedOnce ==
    /\ \A s \in StreamIds :
        /\ streams[s].closes <= 1
        /\ streams[s].closes = 1 => streams[s].opened
        /\ (streams[s].opened /\ streams[s].closes = 0) =>
                (~ds.null /\ ds.fpImage = s)
    /\ ~ds.null =>
        /\ ds.fpImage # 0
        /\ streams[ds.fpImage].opened
        /\ streams[ds.fpImage].closes = 0
        /\ ds.nBands = 1
        /\ ds.band.fpRawL = ds.fpImage
        /\ ds.bGeoTransformValid
        /\ ds.nRasterXSize > 0 /\ ds.nRasterYSize > 0

C7_Witness ==
    /\ call.op = "Open" /\ call.parsed /\ ~call.returned
    /\ streams[2].opened /\ streams[2].closes = 1

\* C8: for every dataset Open or Create returned, at any later point, the
\* geotransform accessor succeeds with [0, 1, 0, 0, 0, 1].
C8_GeoTransformIdentity ==
    /\ ~ds.null =>
        GetGeoTransform(ds) =
            [err |-> "CE_None", padfTransform |-> <<0, 1, 0, 0, 0, 1>>]
    /\ geo.asked =>
        (geo.err = "CE_None" /\ geo.padfTransform = <<0, 1, 0, 0, 0, 1>>)

C8_Witness ==
    /\ geo.asked /\ geo.err = "CE_None" /\ ~ds.null
    /\ call.op = "Create"

\* C9: every dataset has one band whose pixel data starts at byte offset 12,
\* with pixel stride = pixel size and line stride = width * pixel size, and
\* the band does not own the file handle.
C9_BandAtOffset12 ==
    ~ds.null =>
        /\ ds.nBands = 1
        /\ ds.band.nImgOffset = FromNat(12)
        /\ ds.band.nPixelOffset = GDALGetDataTypeSizeBytes(ds.band.eDataType)
        /\ ds.band.nLineOffset = ds.nRasterXSize * ds.band.nPixelOffset
        /\ ~ds.band.bOwnsFP

\* C10: a Create with a supported type and one band, with sizes Open
\* refuses (width <= 0, height <= 0 or width * pixel size > 2^31 - 1) and
\* all I/O succeeding, returns no dataset and leaves the file holding the
\* 12-byte header.
C10_RefusedSizeLeavesHeader ==
    (CreateAccepted /\ call.io = IoAllOk /\ ~RequestedSizeFits) =>
        /\ ~call.returned
        /\ ds.null
        /\ fs.exists
        /\ fs.data = StoreU32(hostLSB, call.nXSize) \o StoreU32(hostLSB, call.nYSize)
                        \o (IF call.eType = "GDT_Byte" THEN Str2("0", "8")
                            ELSE Str2("1", "2"))
                        \o (IF hostLSB THEN Str2("L", "I") ELSE Str2("B", "I"))

C10_Witness ==
    /\ CreateAccepted /\ call.io = IoAllOk /\ ~call.returned
    /\ call.eType = "GDT_UInt16"
    /\ ToInt(call.nXSize) = 1073741824
    /\ ToInt(call.nYSize) = 3
    /\ Len(fs.data) = 12

====
